---- MODULE Spec2Model ----
(***************************************************************************)
(* Model of the Todo List REST API of backend/app.py: the module globals   *)
(* todos and next_id, and the handlers get_todos, create_todo, delete_todo *)
(* and home.                                                               *)
(*                                                                         *)
(* Spec     : requests handled one at a time, one action per handler.      *)
(* SpecConc : requests handled by concurrent threads, one action per read  *)
(*            or write of the module globals.                              *)
(*                                                                         *)
(* A Python str is a sequence of one-character strings.  A JSON value is   *)
(* a record [type, val]; the request body (request.json) is a record       *)
(* [isNone, members] where members is the set of key/value pairs of the    *)
(* JSON object.                                                            *)
(***************************************************************************)
EXTENDS Integers, Sequences, FiniteSets, TLC

\* ------------------------------------------------------------------ bounds
\* largest value of next_id at which a Create may still succeed
MaxId == 3

\* number of request threads of SpecConc
NThreads == 2

\* number of Creates the threads of SpecConc take past validation in all
MaxConcCreates == 2

\* ------------------------------------------------------------ python values
Whitespace == {" ", "\t", "\n"}

RECURSIVE lstrip(_)
lstrip(s) ==
    IF s = <<>> THEN <<>>
    ELSE IF Head(s) \in Whitespace THEN lstrip(Tail(s))
    ELSE s

RECURSIVE rstrip(_)
rstrip(s) ==
    IF s = <<>> THEN <<>>
    ELSE IF s[Len(s)] \in Whitespace THEN rstrip(SubSeq(s, 1, Len(s) - 1))
    ELSE s

\* str.strip()
strip(s) == rstrip(lstrip(s))

JStr(s) == [type |-> "str", val |-> s]
JNull == [type |-> "null", val |-> <<>>]
JNum(digits) == [type |-> "num", val |-> digits]

None == [isNone |-> TRUE, members |-> {}]
Dict(m) == [isNone |-> FALSE, members |-> m]
Pair(k, v) == [key |-> k, value |-> v]

\* `not data`: None and the empty dict are falsy
Falsy(data) == data.isNone \/ data.members = {}

\* `'text' in data`
HasKey(data, k) == \E p \in data.members : p.key = k

\* `data['text']`
GetItem(data, k) == (CHOOSE p \in data.members : p.key = k).value

\* ------------------------------------------------------------------ inputs
\* the str "Buy milk"
BuyMilk == <<"B", "u", "y", " ", "m", "i", "l", "k">>

\* the texts a client sends: empty, blank, plain, padded, inner whitespace
TextInputs ==
    { <<>>, <<" ">>, <<"\t", " ">>,
      <<"a">>, <<" ", "a", "\n">>, BuyMilk }

\* the bodies request.json yields
Bodies ==
    { None, Dict({}), Dict({Pair("done", JStr(<<"a">>))}),
      Dict({Pair("text", JNull)}), Dict({Pair("text", JNum(<<"5">>))}) }
    \cup { Dict({Pair("text", JStr(s))}) : s \in TextInputs }

\* the ids a client puts in the path of DELETE /api/todos/<int:todo_id>
PathIds == 0 .. MaxId + 1

\* ------------------------------------------------------------------- state
VARIABLES
    todos,      \* the module global todos: a sequence of [id, text]
    next_id,    \* the module global next_id
    req,        \* Spec: the request handled last
    resp,       \* Spec: the response to it
    issued,     \* history: [id, raw] of every Create answered 201, in order
    deleted,    \* history: the ids of every Delete answered 204
    pc,         \* SpecConc: where each thread is in its handler
    treq,       \* SpecConc: the request each thread handles
    new_todo,   \* SpecConc: create_todo's local new_todo, per thread
    loaded,     \* SpecConc: the next_id read by `next_id += 1`, per thread
    filtered,   \* SpecConc: the list built by line 209, per thread
    tresp,      \* SpecConc: the response each thread gave
    base        \* SpecConc: the globals when the round of requests began

conc == <<pc, treq, new_todo, loaded, filtered, tresp, base>>
vars == <<todos, next_id, req, resp, issued, deleted, conc>>

Threads == 1 .. NThreads

\* ---------------------------------------------------------------- responses
Json(kind, items, error) == [kind |-> kind, items |-> items, error |-> error]
Response(status, json) == [status |-> status, json |-> json]

ErrorResponse(status, msg) == Response(status, Json("error", <<>>, msg))

\* an exception escaping a handler: Flask answers 500
InternalServerError == Response(500, Json("fault", <<>>, ""))

NoRequest == [op |-> "none", data |-> None, todo_id |-> 0]
NoResponse == Response(0, Json("none", <<>>, ""))
NoTodo == [id |-> 0, text |-> <<>>]

\* ----------------------------------------------------------------- handlers
\* the mutant of MissingText: `not data.get('text')` instead of the key test
MissingText_falsy_text(data) ==
    \/ Falsy(data)
    \/ ~HasKey(data, "text")
    \/ GetItem(data, "text").val = <<>>

\* line 150
MissingText(data) == Falsy(data) \/ ~HasKey(data, "text")

\* line 154: .strip() exists on str only
StripRaises(data) == GetItem(data, "text").type # "str"

\* the mutant of EmptyText: the text is tested without strip()
EmptyText_unstripped(data) == GetItem(data, "text").val = <<>>

\* line 154
EmptyText(data) == strip(GetItem(data, "text").val) = <<>>

\* the mutant of NewTodo: the raw text is stored
NewTodo_raw(nid, data) == [id |-> nid, text |-> GetItem(data, "text").val]

\* lines 158-161
NewTodo(nid, data) == [id |-> nid, text |-> strip(GetItem(data, "text").val)]

\* the mutants of AppendTodo: a text already stored is not stored again /
\* the new item is put first
AppendTodo_unique_text(ts, t) ==
    IF \E i \in 1 .. Len(ts) : ts[i].text = t.text THEN ts ELSE Append(ts, t)
AppendTodo_front(ts, t) == <<t>> \o ts

\* line 164
AppendTodo(ts, t) == Append(ts, t)

\* the mutants of Increment: the counter is left alone / steps by two
Increment_none(n) == n
Increment_two(n) == n + 2

\* line 167
Increment(n) == n + 1

\* the mutant of FindTodo: the comparison is >= instead of ==
FindTodo_at_least(ts, todo_id) == \E i \in 1 .. Len(ts) : ts[i].id >= todo_id

\* line 203: TRUE iff next(...) yields an item rather than None
FindTodo(ts, todo_id) == \E i \in 1 .. Len(ts) : ts[i].id = todo_id

\* the mutant of Without: the comparison is > instead of !=
Without_upto(ts, todo_id) == SelectSeq(ts, LAMBDA t : t.id > todo_id)

\* the mutant of Without: the id is taken for a list index (del todos[todo_id])
Without_by_index(ts, todo_id) ==
    IF todo_id + 1 \in 1 .. Len(ts)
    THEN SubSeq(ts, 1, todo_id) \o SubSeq(ts, todo_id + 2, Len(ts))
    ELSE ts

\* line 209: [t for t in todos if t['id'] != todo_id]
Without(ts, todo_id) == SelectSeq(ts, LAMBDA t : t.id # todo_id)

\* the mutant of ListBody: the newest item is left out
ListBody_drop_last(ts) == SubSeq(ts, 1, Len(ts) - 1)

\* line 96: jsonify(todos)
ListBody(ts) == ts

\* create_todo as a function of the globals and the body:
\* the response and the globals it leaves
create_todo(ts, nid, data) ==
    IF MissingText(data) THEN
        [resp |-> ErrorResponse(400, "Missing text field"),
         todos |-> ts, next_id |-> nid]
    ELSE IF StripRaises(data) THEN
        [resp |-> InternalServerError, todos |-> ts, next_id |-> nid]
    ELSE IF EmptyText(data) THEN
        [resp |-> ErrorResponse(400, "Text cannot be empty"),
         todos |-> ts, next_id |-> nid]
    ELSE
        LET nt == NewTodo(nid, data) IN
        [resp |-> Response(201, Json("item", <<nt>>, "")),
         todos |-> AppendTodo(ts, nt),
         next_id |-> Increment(nid)]

\* delete_todo as a function of the globals and the path id
delete_todo(ts, nid, todo_id) ==
    IF ~FindTodo(ts, todo_id) THEN
        [resp |-> ErrorResponse(404, "Todo not found"),
         todos |-> ts, next_id |-> nid]
    ELSE
        [resp |-> Response(204, Json("empty", <<>>, "")),
         todos |-> Without(ts, todo_id), next_id |-> nid]

\* get_todos
get_todos(ts) == Response(200, Json("list", ListBody(ts), ""))

\* home
home == Response(200, Json("info", <<>>, ""))

\* ------------------------------------------------------------ Spec: actions
Init ==
    /\ todos = <<>>
    /\ next_id = 1
    /\ req = NoRequest
    /\ resp = NoResponse
    /\ issued = <<>>
    /\ deleted = {}
    /\ pc = [t \in Threads |-> "idle"]
    /\ treq = [t \in Threads |-> NoRequest]
    /\ new_todo = [t \in Threads |-> NoTodo]
    /\ loaded = [t \in Threads |-> 0]
    /\ filtered = [t \in Threads |-> <<>>]
    /\ tresp = [t \in Threads |-> NoResponse]
    /\ base = [todos |-> <<>>, next_id |-> 1]

\* POST /api/todos
Create(data) ==
    LET r == create_todo(todos, next_id, data) IN
    /\ r.resp.status = 201 => next_id <= MaxId
    /\ req' = [op |-> "POST", data |-> data, todo_id |-> 0]
    /\ resp' = r.resp
    /\ todos' = r.todos
    /\ next_id' = r.next_id
    /\ issued' = IF r.resp.status = 201
                 THEN Append(issued, [id |-> r.resp.json.items[1].id,
                                      raw |-> GetItem(data, "text").val])
                 ELSE issued
    /\ UNCHANGED <<deleted, conc>>

\* DELETE /api/todos/<todo_id>
Delete(todo_id) ==
    LET r == delete_todo(todos, next_id, todo_id) IN
    /\ req' = [op |-> "DELETE", data |-> None, todo_id |-> todo_id]
    /\ resp' = r.resp
    /\ todos' = r.todos
    /\ next_id' = r.next_id
    /\ deleted' = IF r.resp.status = 204 THEN deleted \cup {todo_id}
                  ELSE deleted
    /\ UNCHANGED <<issued, conc>>

\* GET /api/todos
List ==
    /\ req' = [op |-> "GET", data |-> None, todo_id |-> 0]
    /\ resp' = get_todos(todos)
    /\ UNCHANGED <<todos, next_id, issued, deleted, conc>>

\* GET /
Info ==
    /\ req' = [op |-> "HOME", data |-> None, todo_id |-> 0]
    /\ resp' = home
    /\ UNCHANGED <<todos, next_id, issued, deleted, conc>>

Next ==
    \/ \E data \in Bodies : Create(data)
    \/ \E todo_id \in PathIds : Delete(todo_id)
    \/ List
    \/ Info

Spec == Init /\ [][Next]_vars

\* -------------------------------------------------------- SpecConc: actions
\* app.run() serves each request in a thread of its own and the handlers
\* take no lock: a thread may be preempted between any two accesses to the
\* globals todos and next_id.  Each action below is one such access together
\* with the thread-local work that precedes it.  A round is a set of requests
\* in flight together; it ends when every thread that took a request has
\* answered.

\* the bodies and path ids the threads are given
ConcBodies ==
    { Dict({Pair("text", JStr(<<" ">>))}),
      Dict({Pair("text", JStr(<<"a">>))}),
      Dict({Pair("text", JStr(<<"b">>))}) }
ConcPathIds == 1 .. MaxConcCreates

\* the Creates that passed validation: those answered 201 and those under way
CreatesStarted ==
    Len(issued) + Cardinality({ t \in Threads : pc[t] \in {"append", "load", "store"} })

Answer(t, r) ==
    /\ tresp' = [tresp EXCEPT ![t] = r]
    /\ pc' = [pc EXCEPT ![t] = "done"]

\* lines 147-161: validate the body, then read next_id into new_todo
CreateBuild(t, data) ==
    /\ pc[t] = "idle"
    /\ CreatesStarted < MaxConcCreates
    /\ treq' = [treq EXCEPT ![t] = [op |-> "POST", data |-> data, todo_id |-> 0]]
    /\ IF MissingText(data) THEN
          Answer(t, ErrorResponse(400, "Missing text field"))
          /\ UNCHANGED new_todo
       ELSE IF StripRaises(data) THEN
          Answer(t, InternalServerError) /\ UNCHANGED new_todo
       ELSE IF EmptyText(data) THEN
          Answer(t, ErrorResponse(400, "Text cannot be empty"))
          /\ UNCHANGED new_todo
       ELSE
          /\ new_todo' = [new_todo EXCEPT ![t] = NewTodo(next_id, data)]
          /\ pc' = [pc EXCEPT ![t] = "append"]
          /\ UNCHANGED tresp
    /\ UNCHANGED <<todos, next_id, req, resp, issued, deleted,
                   loaded, filtered, base>>

\* line 164: todos.append(new_todo)
CreateAppend(t) ==
    /\ pc[t] = "append"
    /\ todos' = AppendTodo(todos, new_todo[t])
    /\ pc' = [pc EXCEPT ![t] = "load"]
    /\ UNCHANGED <<next_id, req, resp, issued, deleted,
                   treq, new_todo, loaded, filtered, tresp, base>>

\* line 167, the read of `next_id += 1`
CreateLoad(t) ==
    /\ pc[t] = "load"
    /\ loaded' = [loaded EXCEPT ![t] = next_id]
    /\ pc' = [pc EXCEPT ![t] = "store"]
    /\ UNCHANGED <<todos, next_id, req, resp, issued, deleted,
                   treq, new_todo, filtered, tresp, base>>

\* line 167, the write of `next_id += 1`, and line 170
CreateStore(t) ==
    /\ pc[t] = "store"
    /\ next_id' = Increment(loaded[t])
    /\ Answer(t, Response(201, Json("item", <<new_todo[t]>>, "")))
    /\ issued' = Append(issued, [id |-> new_todo[t].id,
                                 raw |-> GetItem(treq[t].data, "text").val])
    /\ UNCHANGED <<todos, req, resp, deleted,
                   treq, new_todo, loaded, filtered, base>>

\* lines 203-206: look the id up in todos
DeleteFind(t, todo_id) ==
    /\ pc[t] = "idle"
    /\ treq' = [treq EXCEPT ![t] =
                  [op |-> "DELETE", data |-> None, todo_id |-> todo_id]]
    /\ IF ~FindTodo(todos, todo_id)
       THEN Answer(t, ErrorResponse(404, "Todo not found"))
       ELSE /\ pc' = [pc EXCEPT ![t] = "filter"]
            /\ UNCHANGED tresp
    /\ UNCHANGED <<todos, next_id, req, resp, issued, deleted,
                   new_todo, loaded, filtered, base>>

\* line 209, the list comprehension over todos
DeleteFilter(t) ==
    /\ pc[t] = "filter"
    /\ filtered' = [filtered EXCEPT ![t] = Without(todos, treq[t].todo_id)]
    /\ pc' = [pc EXCEPT ![t] = "rebind"]
    /\ UNCHANGED <<todos, next_id, req, resp, issued, deleted,
                   treq, new_todo, loaded, tresp, base>>

\* line 209, the assignment to the global todos, and line 212
DeleteRebind(t) ==
    /\ pc[t] = "rebind"
    /\ todos' = filtered[t]
    /\ Answer(t, Response(204, Json("empty", <<>>, "")))
    /\ deleted' = deleted \cup {treq[t].todo_id}
    /\ UNCHANGED <<next_id, req, resp, issued,
                   treq, new_todo, loaded, filtered, base>>

\* every thread that took a request has answered
Quiescent == \A t \in Threads : pc[t] \in {"idle", "done"}

\* the round is over: the threads take new requests
NextRound ==
    /\ Quiescent
    /\ \E t \in Threads : pc[t] = "done"
    /\ pc' = [t \in Threads |-> "idle"]
    /\ treq' = [t \in Threads |-> NoRequest]
    /\ new_todo' = [t \in Threads |-> NoTodo]
    /\ loaded' = [t \in Threads |-> 0]
    /\ filtered' = [t \in Threads |-> <<>>]
    /\ tresp' = [t \in Threads |-> NoResponse]
    /\ base' = [todos |-> todos, next_id |-> next_id]
    /\ UNCHANGED <<todos, next_id, req, resp, issued, deleted>>

NextConc ==
    \/ \E t \in Threads : \E data \in ConcBodies : CreateBuild(t, data)
    \/ \E t \in Threads : CreateAppend(t)
    \/ \E t \in Threads : CreateLoad(t)
    \/ \E t \in Threads : CreateStore(t)
    \/ \E t \in Threads : \E todo_id \in ConcPathIds : DeleteFind(t, todo_id)
    \/ \E t \in Threads : DeleteFilter(t)
    \/ \E t \in Threads : DeleteRebind(t)
    \/ NextRound

SpecConc == Init /\ [][NextConc]_vars

\* ============================================================ claims (Spec)
IsPost == req.op = "POST"
IsPostNext == req'.op = "POST"
IsDeleteNext == req'.op = "DELETE"
IsListNext == req'.op = "GET"

IdsOf(ts) == { ts[i].id : i \in 1 .. Len(ts) }
IssuedIds == IdsOf(issued)

\* the text of a str JSON member "text" of the body, <<>> when there is none
TextOf(data) ==
    IF \E p \in data.members : p.key = "text" /\ p.value.type = "str"
    THEN (CHOOSE p \in data.members : p.key = "text").value.val
    ELSE <<>>

\* the body is absent, or has no text member
BodyLacksText(data) ==
    data.isNone \/ \A p \in data.members : p.key # "text"

\* the body has a str text member that is empty or whitespace only
BodyTextBlank(data) ==
    /\ \E p \in data.members : p.key = "text" /\ p.value.type = "str"
    /\ \A k \in 1 .. Len(TextOf(data)) : TextOf(data)[k] \in Whitespace

\* the body has a text member that is not a str
BodyTextNotStr(data) ==
    \E p \in data.members : p.key = "text" /\ p.value.type # "str"

\* t is raw without its leading and trailing whitespace
IsTrimOf(t, raw) ==
    /\ t # <<>>
    /\ Head(t) \notin Whitespace
    /\ t[Len(t)] \notin Whitespace
    /\ \E i \in 0 .. Len(raw) - Len(t) :
          /\ SubSeq(raw, i + 1, i + Len(t)) = t
          /\ \A k \in (1 .. i) \cup (i + Len(t) + 1 .. Len(raw)) :
                raw[k] \in Whitespace

\* the raw text the client sent for the Create that issued id
RawOf(id) == issued[CHOOSE i \in 1 .. Len(issued) : issued[i].id = id].raw

\* the position of the Create that issued id among the successful Creates
IssuedPos(id) == CHOOSE i \in 1 .. Len(issued) : issued[i].id = id

\* C1: the id a successful Create returns is strictly greater than the id
\* every earlier successful Create returned, so it is none of them and none
\* of the ids whose item was deleted.
C1_CreateIdsIncrease ==
    [][ (IsPostNext /\ resp'.status = 201) =>
            /\ \A i \in 1 .. Len(issued) : issued[i].id < resp'.json.items[1].id
            /\ resp'.json.items[1].id \notin IssuedIds \cup deleted ]_vars

C1_Witness ==
    /\ IsPost /\ resp.status = 201
    /\ Len(issued) >= 3
    /\ deleted # {}
    /\ Len(todos) = 1

C3_DeleteAbsent ==
    [][ (IsDeleteNext /\ req'.todo_id \notin IdsOf(todos)) =>
            /\ resp' = ErrorResponse(404, "Todo not found")
            /\ todos' = todos
            /\ next_id' = next_id ]_vars

C3_Witness ==
    /\ req.op = "DELETE" /\ resp.status = 404
    /\ Len(todos) >= 2
    /\ req.todo_id \in deleted

\* C4: a Delete of an id an item carries is answered 204 and removes that
\* item and no other: the rest stays as it was, in the same order, and
\* next_id is unchanged.
C4_DeletePresent ==
    [][ (IsDeleteNext /\ req'.todo_id \in IdsOf(todos)) =>
            /\ resp'.status = 204
            /\ Len(todos') = Len(todos) - 1
            /\ \E k \in 1 .. Len(todos) :
                  /\ todos[k].id = req'.todo_id
                  /\ todos' = SubSeq(todos, 1, k - 1)
                              \o SubSeq(todos, k + 1, Len(todos))
            /\ next_id' = next_id ]_vars

C4_Witness ==
    /\ req.op = "DELETE" /\ resp.status = 204
    /\ Len(todos) = 2
    /\ todos[1].id < req.todo_id /\ req.todo_id < todos[2].id

\* C5: List answers 200 with the items of todos, which are in the order of
\* their Creates, and changes neither todos nor next_id; right after a
\* successful Create the created item is the last element of the list.
C5_ListIsCollection ==
    [][ IsListNext =>
            /\ resp'.status = 200
            /\ resp'.json.items = todos
            /\ \A i, j \in 1 .. Len(resp'.json.items) :
                  i < j => IssuedPos(resp'.json.items[i].id)
                           < IssuedPos(resp'.json.items[j].id)
            /\ todos' = todos
            /\ next_id' = next_id
            /\ (IsPost /\ resp.status = 201) =>
                  /\ resp'.json.items # <<>>
                  /\ resp'.json.items[Len(resp'.json.items)]
                       = resp.json.items[1] ]_vars

C5_Witness ==
    /\ req.op = "GET" /\ resp.status = 200
    /\ Len(resp.json.items) = 2
    /\ resp.json.items[2].id = MaxId
    /\ deleted # {}

\* C6: the ids of the items in todos are pairwise distinct.
C6_IdsDistinct ==
    \A i, j \in 1 .. Len(todos) : i # j => todos[i].id # todos[j].id

C6_Witness ==
    /\ Len(todos) >= 2
    /\ deleted # {}
    /\ todos[1].text = todos[2].text

\* C7: next_id starts at 1, is positive and above every id in todos and every
\* id ever issued, is one more than the number of successful Creates, and
\* changes only by a successful Create, by exactly one.
C7_NextIdCounts ==
    /\ next_id = 1
    /\ [](/\ next_id \in Nat \ {0}
          /\ \A id \in IdsOf(todos) \cup IssuedIds \cup deleted : id < next_id
          /\ next_id - 1 = Len(issued))
    /\ [][ /\ (IsPostNext /\ resp'.status = 201) => next_id' = next_id + 1
           /\ ~(IsPostNext /\ resp'.status = 201) => next_id' = next_id ]_vars

C7_Witness ==
    /\ next_id = 3
    /\ todos = <<>>
    /\ IsPost /\ resp.status = 400

\* C8: the text of every stored item has a non-whitespace character and is
\* the client's text without its leading and trailing whitespace; so is the
\* text of the item Create returns and of every item List returns.
C8_TextTrimmed ==
    /\ \A i \in 1 .. Len(todos) :
          /\ \E k \in 1 .. Len(todos[i].text) :
                todos[i].text[k] \notin Whitespace
          /\ IsTrimOf(todos[i].text, RawOf(todos[i].id))
    /\ \A i \in 1 .. Len(resp.json.items) :
          IsTrimOf(resp.json.items[i].text, RawOf(resp.json.items[i].id))
    /\ (IsPost /\ resp.status = 201) =>
          IsTrimOf(resp.json.items[1].text, TextOf(req.data))

C8_Witness ==
    /\ req.op = "GET"
    /\ Len(resp.json.items) >= 2
    /\ \E i \in 1 .. Len(resp.json.items) :
          resp.json.items[i].text # RawOf(resp.json.items[i].id)
    /\ \E i \in 1 .. Len(resp.json.items) :
          \E k \in 1 .. Len(resp.json.items[i].text) :
             resp.json.items[i].text[k] \in Whitespace

\* C10: a Create with a malformed body (absent, no text member, text not a
\* str, text blank) is answered 400 with an error, and no request ends in a
\* status other than 200, 201, 204, 400, 404.
C10_OnlyFourHundreds ==
    /\ (IsPost /\ (\/ BodyLacksText(req.data)
                   \/ BodyTextNotStr(req.data)
                   \/ BodyTextBlank(req.data))) =>
          (resp.status = 400 /\ resp.json.kind = "error" /\ resp.json.error # "")
    /\ req.op # "none" => resp.status \in {200, 201, 204, 400, 404}

MilkItem == [id |-> 1, text |-> BuyMilk]
PostMilk == [op |-> "POST", data |-> Dict({Pair("text", JStr(BuyMilk))}),
             todo_id |-> 0]
DeleteOne == [op |-> "DELETE", data |-> None, todo_id |-> 1]

\* C12: on the initial globals Create("Buy milk") answers 201 with
\* {id 1, "Buy milk"}; on the globals that leaves, List answers [that item]
\* and Delete(1) answers 204; on the globals that leaves, List answers []
\* and Delete(1) answers 404.
C12_RoundTrip ==
    [][ /\ (todos = <<>> /\ next_id = 1 /\ req' = PostMilk) =>
              /\ resp'.status = 201
              /\ resp'.json.items = <<MilkItem>>
              /\ todos' = <<MilkItem>> /\ next_id' = 2
        /\ (todos = <<MilkItem>> /\ next_id = 2 /\ req'.op = "GET") =>
              /\ resp'.status = 200
              /\ resp'.json.items = <<MilkItem>>
              /\ todos' = <<MilkItem>> /\ next_id' = 2
        /\ (todos = <<MilkItem>> /\ next_id = 2 /\ req' = DeleteOne) =>
              /\ resp'.status = 204
              /\ resp'.json.items = <<>>
              /\ todos' = <<>> /\ next_id' = 2
        /\ (todos = <<>> /\ next_id = 2 /\ req'.op = "GET") =>
              /\ resp'.status = 200
              /\ resp'.json.items = <<>>
              /\ todos' = <<>> /\ next_id' = 2
        /\ (todos = <<>> /\ next_id = 2 /\ req' = DeleteOne) =>
              /\ resp'.status = 404
              /\ todos' = <<>> /\ next_id' = 2 ]_vars

C12_Witness ==
    /\ req = DeleteOne /\ resp.status = 404
    /\ issued = <<[id |-> 1, raw |-> BuyMilk]>>
    /\ deleted = {1}
    /\ todos = <<>> /\ next_id = 2

\* C13: a Create whose trimmed text is the text of an item already in todos
\* is answered 201, appends one more item with that text and gets an id above
\* every id in todos; from the initial globals two Creates of one text get
\* ids 1 and 2 and both items are in todos.
C13_DuplicateTextAccepted ==
    [][ IsPostNext =>
          /\ (\E i \in 1 .. Len(todos) :
                 IsTrimOf(todos[i].text, TextOf(req'.data))) =>
                /\ resp'.status = 201
                /\ todos' = todos \o resp'.json.items
                /\ Len(todos') = Len(todos) + 1
                /\ \A i \in 1 .. Len(todos) : todos[i].id < todos'[Len(todos')].id
                /\ IsTrimOf(todos'[Len(todos')].text, TextOf(req'.data))
          /\ (todos = <<>> /\ next_id = 1 /\ resp'.status = 201) =>
                resp'.json.items[1].id = 1
          /\ (/\ Len(todos) = 1 /\ todos[1].id = 1 /\ next_id = 2
              /\ IsTrimOf(todos[1].text, TextOf(req'.data))) =>
                /\ resp'.status = 201
                /\ resp'.json.items[1].id = 2
                /\ todos' = <<todos[1], [id |-> 2, text |-> todos[1].text]>> ]_vars

C13_Witness ==
    /\ IsPost /\ resp.status = 201
    /\ Len(todos) = 2 /\ Len(issued) = 2
    /\ todos[1].id = 1 /\ todos[2].id = 2
    /\ todos[1].text = todos[2].text
    /\ issued[1].raw # issued[2].raw

\* C16: once a Delete of an id was answered 204, no item of todos and no item
\* a List returns carries that id, and every later Delete of it is answered
\* 404, whatever Creates came in between.
C16_DeletedIdGone ==
    /\ [](/\ \A id \in deleted : id \notin IdsOf(todos)
          /\ req.op = "GET" => \A id \in deleted : id \notin IdsOf(resp.json.items))
    /\ [][ (IsDeleteNext /\ req'.todo_id \in deleted) =>
              /\ resp'.status = 404
              /\ deleted' = deleted ]_vars

C16_Witness ==
    /\ req.op = "DELETE" /\ resp.status = 404
    /\ req.todo_id \in deleted
    /\ \E k \in 1 .. Len(todos) : todos[k].id > req.todo_id
    /\ Len(issued) = MaxId

\* C17: the items of todos are in strictly increasing id order, every id is
\* in 1 .. next_id - 1, and todos has at most next_id - 1 items.
C17_OrderedById ==
    /\ \A i, j \in 1 .. Len(todos) : i < j => todos[i].id < todos[j].id
    /\ \A i \in 1 .. Len(todos) : todos[i].id \in 1 .. next_id - 1
    /\ Len(todos) <= next_id - 1

C17_Witness ==
    /\ Len(todos) = 2
    /\ todos[1].id = 1 /\ todos[2].id = 3
    /\ deleted = {2}
    /\ next_id = 4

\* ======================================================== claims (SpecConc)
\* the threads that handled a request in this round
Served == { t \in Threads : pc[t] = "done" }

\* the orders in which the requests of the round can be handled one by one
Orders ==
    { o \in [1 .. Cardinality(Served) -> Served] :
         \A i, j \in 1 .. Cardinality(Served) : i # j => o[i] # o[j] }

\* one request handled as a whole on globals g
Handle(g, r) ==
    IF r.op = "POST" THEN create_todo(g.todos, g.next_id, r.data)
    ELSE delete_todo(g.todos, g.next_id, r.todo_id)

\* the globals after the first n requests of order o, handled one at a time
\* from the globals the round began with
RECURSIVE SerialGlobals(_, _)
SerialGlobals(o, n) ==
    IF n = 0 THEN [resp |-> NoResponse,
                   todos |-> base.todos, next_id |-> base.next_id]
    ELSE Handle(SerialGlobals(o, n - 1), treq[o[n]])

\* order o explains the round: every response and the final globals
Explains(o) ==
    /\ \A n \in 1 .. Cardinality(Served) :
          SerialGlobals(o, n).resp = tresp[o[n]]
    /\ SerialGlobals(o, Cardinality(Served)).todos = todos
    /\ SerialGlobals(o, Cardinality(Served)).next_id = next_id

\* C9: when the requests of a round have all been answered, the responses,
\* todos and next_id are those of handling the same requests one at a time
\* in some order.
C9_Serializable == Quiescent => \E o \in Orders : Explains(o)

\* a round of two requests that did overlap and that a serial order explains
C9_SerialRoundReached ==
    /\ Cardinality(Served) = 2
    /\ Len(todos) = 2
    /\ \E o \in Orders : Explains(o)

\* the threads whose Create was answered 201 in this round
Created == { t \in Served : treq[t].op = "POST" /\ tresp[t].status = 201 }

\* C14: two Creates handled by two threads get different ids, todos never
\* holds two items with one id, and next_id ends 2 above its value when the
\* two Creates began.
C14_ConcurrentCreatesDistinct ==
    /\ \A i, j \in 1 .. Len(todos) : i # j => todos[i].id # todos[j].id
    /\ (Quiescent /\ Cardinality(Created) = 2) =>
          /\ \A t, u \in Created :
                t # u => tresp[t].json.items[1].id # tresp[u].json.items[1].id
          /\ next_id = base.next_id + 2

\* C15: the item of every Create answered 201 is in todos unless a Delete of
\* its id was answered 204.
C15_CreatedItemKept ==
    \A i \in 1 .. Len(issued) :
        issued[i].id \notin deleted =>
            \E k \in 1 .. Len(todos) :
                /\ todos[k].id = issued[i].id
                /\ IsTrimOf(todos[k].text, issued[i].raw)

====
